---- MODULE Spec2Model ----
(***************************************************************************)
(* A model of the flash command-line flashcard tool: the card loader, the  *)
(* quiz round (run_round), the session loop of the flash command, and the  *)
(* narration cache of VoiceReader.                                         *)
(*                                                                         *)
(* Text is a sequence of one-character strings, so that strip() and        *)
(* lower() are computed on characters.  An Optional value is None (the     *)
(* empty tuple) or Some(x) (the one-element tuple).                        *)
(***************************************************************************)
EXTENDS Integers, Sequences, FiniteSets, TLC

None == <<>>

Some(x) == <<x>>

Get(o) == o[1]

(* ------------------------------- bounds -------------------------------- *)
\* rows in the CSV file
MaxRows == 2
\* rounds of a recursive session that the model follows
MaxRounds == 2
\* length of the texts drawn for the grading function
MaxLen == 2
\* playback threads a VoiceReader used on its own keeps alive at once
MaxThreads == 1

(* ------------------------ text: strip and lower ------------------------ *)
Whitespace == {" ", "\t"}

Letters == {"a", "A", "b", "B"}

Chars == Letters \cup Whitespace

\* str.lower() on one character
lower_char(c) ==
    CASE c = "A" -> "a"
      [] c = "B" -> "b"
      [] OTHER -> c

\* str.lower()
lower(s) == [k \in 1..Len(s) |-> lower_char(s[k])]

RECURSIVE lstrip(_)
lstrip(s) ==
    IF s # <<>> /\ Head(s) \in Whitespace THEN lstrip(Tail(s)) ELSE s

RECURSIVE rstrip(_)
rstrip(s) ==
    IF s # <<>> /\ s[Len(s)] \in Whitespace
    THEN rstrip(SubSeq(s, 1, Len(s) - 1))
    ELSE s

\* a strip that forgets the trailing whitespace
strip_left_only(s) == lstrip(s)

\* str.strip()
strip(s) == rstrip(lstrip(s))

\* the comparison of run_round: x.strip().lower() == answer.strip().lower()
is_match(user_answer, answer) ==
    lower(strip(user_answer)) = lower(strip(answer))

(* --------------------------- voice constants --------------------------- *)
AVAILABLE_VOICES == {"alloy", "echo", "fable", "onyx", "nova", "shimmer", "coral"}

DEFAULT_VOICE == "onyx"

\* The instruction sentences of the non-Latin languages are written here by
\* an ASCII stand-in; every language has its own sentence, as in the source.
LANGUAGE_INSTRUCTIONS ==
    [l \in {"english", "japanese", "chinese", "korean", "spanish", "french",
            "german", "italian", "russian", "portuguese", "arabic", "hindi",
            "thai", "vietnamese"} |->
        CASE l = "english" -> "Read this text in English."
          [] l = "spanish" -> "Lee este texto en espanol."
          [] l = "french" -> "Lisez ce texte en francais."
          [] l = "german" -> "Lesen Sie diesen Text auf Deutsch."
          [] l = "italian" -> "Leggi questo testo in italiano."
          [] l = "portuguese" -> "Leia este texto em portugues."
          [] l = "vietnamese" -> "Doc van ban nay bang tieng Viet."
          [] l = "japanese" -> "(Please read this text in Japanese)"
          [] l = "chinese" -> "(Please read this text in Chinese)"
          [] l = "korean" -> "(Please read this text in Korean)"
          [] l = "russian" -> "(Read this text in Russian)"
          [] l = "arabic" -> "(Read this text in Arabic)"
          [] l = "hindi" -> "(Read this text in Hindi)"
          [] l = "thai" -> "(Read this text in Thai)"]

\* language.lower() on the language names the model draws
lang_lower(l) ==
    CASE l = "French" -> "french"
      [] l = "FRENCH" -> "french"
      [] l = "English" -> "english"
      [] OTHER -> l

(* ------------------------------ the state ------------------------------ *)
VARIABLES
    cfg,                      \* the command line and the environment of flash()
    voice_col,                \* flash's voice_col, cleared by the voice checks
    pc,                       \* where the command is
    exit_code,                \* None while running, else the exit status
    cards,                    \* flash: the loaded cards
    current_cards,            \* flash: the input of the current round
    round_num,                \* flash: the number of the current round
    all_results,              \* flash: round -> <<correct, total>>
    correct_cards,            \* run_round: the cards answered correctly
    incorrect_cards,          \* run_round: the cards answered incorrectly
    idx,                      \* run_round: the i of enumerate(cards, 1)
    voice_enabled,            \* run_round: voice_enabled
    voice_reader,             \* run_round: None or a VoiceReader
    active_playback_threads,  \* VoiceReader: the tracked playback threads
    cache_files,              \* the files of the cache directory
    partial_files,            \* those of them that a failed stream left behind
    event,                    \* the last thing the command printed or asked
    voice_dismissed,          \* the user answered yes to "Continue without voice?"
    voice_op,                 \* the last call of a VoiceReader method
    g_user, g_answer, g_result, \* the grading function applied to two texts
    call_args, call_result    \* a pure function applied to drawn arguments

session_vars ==
    <<cfg, voice_col, pc, exit_code, cards, current_cards, round_num,
      all_results, correct_cards, incorrect_cards, idx, voice_enabled,
      voice_reader, event, voice_dismissed>>

reader_vars == <<active_playback_threads, cache_files, partial_files, voice_op>>

call_vars == <<call_args, call_result>>

grade_vars == <<g_user, g_answer, g_result, call_vars>>

vars == <<session_vars, reader_vars, grade_vars>>

Ev(kind, text, ok) == [kind |-> kind, text |-> text, ok |-> ok]

VoiceOp(op, key, remote, raised, path) ==
    [op |-> op, key |-> key, remote |-> remote, raised |-> raised, path |-> path]

NoOp == VoiceOp("none", <<>>, FALSE, None, None)

(* ------------------------------ the inputs ----------------------------- *)
\* the rows a file is made of: two full rows, one row with a third field,
\* and one row too short for any pair of distinct columns
RowPool ==
    { << <<"a">>, <<" ", "B">> >>,
      << <<"b">>, <<"A">> >>,
      << <<"b">> >> }

RECURSIVE SeqsUpTo(_, _)
SeqsUpTo(S, n) ==
    IF n = 0 THEN {<<>>}
    ELSE LET shorter == SeqsUpTo(S, n - 1)
         IN  shorter \cup {Append(s, x) : s \in {t \in shorter : Len(t) = n - 1}, x \in S}

Files == SeqsUpTo(RowPool, MaxRows)

\* what the user may type at a prompt
InputPool == { <<"b">>, <<"A", " ">>, <<"a", "b">> }

\* prompt and answer columns: two valid pairs, and two that flash rejects
GoodColumnPairs == { <<0, 1>>, <<1, 0>> }

BadColumnPairs == { <<0, 0>>, <<-1, 1>> }

\* the voice options and the environment they are checked against
VoiceSetup(col, type, lang, avail, key) ==
    [voice_col |-> col, voice_type |-> type, language |-> lang,
     voice_available |-> avail, api_key |-> key]

\* no narration, and narration of column 0 and of column 1
GoodVoiceSetups ==
    { VoiceSetup(None, Some(DEFAULT_VOICE), None, TRUE, TRUE),
      VoiceSetup(Some(0), Some(DEFAULT_VOICE), None, TRUE, TRUE),
      VoiceSetup(Some(1), Some("nova"), Some("French"), TRUE, TRUE) }

\* one setup for each voice check of flash that fails
BadVoiceSetups ==
    { VoiceSetup(Some(0), Some(DEFAULT_VOICE), None, FALSE, TRUE),
      VoiceSetup(Some(-1), Some(DEFAULT_VOICE), None, TRUE, TRUE),
      VoiceSetup(Some(0), Some("bogus"), None, TRUE, TRUE),
      VoiceSetup(Some(0), Some(DEFAULT_VOICE), Some("klingon"), TRUE, TRUE),
      VoiceSetup(Some(0), Some(DEFAULT_VOICE), None, TRUE, FALSE) }

Config(s, c, r, p, v) ==
    [shuffle |-> s, confirm |-> c, recursive |-> r,
     from_col |-> p[1], to_col |-> p[2],
     voice_col |-> v.voice_col, voice_type |-> v.voice_type,
     language |-> v.language, voice_available |-> v.voice_available,
     api_key |-> v.api_key]

\* every combination of the flags with the valid options; the options that
\* flash rejects or asks about with the flags off but for recursive
Configs ==
    { Config(s, c, r, p, v) :
        s \in BOOLEAN, c \in BOOLEAN, r \in BOOLEAN,
        p \in GoodColumnPairs, v \in {w \in GoodVoiceSetups : w.voice_col = None} }
    \cup
    { Config(FALSE, c, r, p, v) :
        c \in BOOLEAN, r \in BOOLEAN,
        p \in GoodColumnPairs, v \in GoodVoiceSetups }
    \cup
    { Config(FALSE, FALSE, r, p, v) :
        r \in BOOLEAN, p \in GoodColumnPairs \cup BadColumnPairs,
        v \in BadVoiceSetups }
    \cup
    { Config(FALSE, FALSE, r, p, v) :
        r \in BOOLEAN, p \in BadColumnPairs, v \in GoodVoiceSetups }

CallIdle == call_args = <<>> /\ call_result = None

GradeIdle == g_user = <<>> /\ g_answer = <<>> /\ g_result = None /\ CallIdle

Init ==
    /\ cfg \in Configs
    /\ voice_col = cfg.voice_col
    /\ pc = "parse"
    /\ exit_code = None
    /\ cards = <<>>
    /\ current_cards = <<>>
    /\ round_num = 0
    /\ all_results = <<>>
    /\ correct_cards = <<>>
    /\ incorrect_cards = <<>>
    /\ idx = 0
    /\ voice_enabled = FALSE
    /\ voice_reader = None
    /\ active_playback_threads = <<>>
    /\ cache_files = {}
    /\ partial_files = {}
    /\ event = Ev("none", <<>>, FALSE)
    /\ voice_dismissed = FALSE
    /\ voice_op = NoOp
    /\ GradeIdle

\* an exit that reports success whatever the code
ExitWithZero(code, ev) ==
    /\ pc' = "exited"
    /\ exit_code' = Some(0)
    /\ event' = ev

\* sys.exit(code) after the message ev
Exit(code, ev) ==
    /\ pc' = "exited"
    /\ exit_code' = Some(code)
    /\ event' = ev

(* --------------------- flash: options and voice checks ----------------- *)
\* click.Path(exists=True): a missing file is a usage error, status 2
ParseArgs(exists) ==
    /\ pc = "parse"
    /\ IF exists
       THEN pc' = "validate" /\ UNCHANGED <<exit_code, event>>
       ELSE Exit(2, Ev("usage_error", <<>>, FALSE))
    /\ UNCHANGED <<cfg, voice_col, cards, current_cards, round_num,
                   all_results, correct_cards, incorrect_cards, idx,
                   voice_enabled, voice_reader, voice_dismissed>>
    /\ UNCHANGED <<reader_vars, grade_vars>>

\* a column check that lets equal columns pass
bad_columns_ignoring_equal(from_col, to_col) ==
    from_col < 0 \/ to_col < 0

\* the two column checks of flash
bad_columns(from_col, to_col) ==
    from_col < 0 \/ to_col < 0 \/ from_col = to_col

Validate ==
    /\ pc = "validate"
    /\ IF bad_columns(cfg.from_col, cfg.to_col)
       THEN Exit(1, Ev("config_error", <<>>, FALSE))
       ELSE pc' = "check_voice" /\ UNCHANGED <<exit_code, event>>
    /\ UNCHANGED <<cfg, voice_col, cards, current_cards, round_num,
                   all_results, correct_cards, incorrect_cards, idx,
                   voice_enabled, voice_reader, voice_dismissed>>
    /\ UNCHANGED <<reader_vars, grade_vars>>

\* voice checks that do not look for the API key
voice_problem_ignoring_key(c, col) ==
    CASE col = None -> "none"
      [] ~c.voice_available -> "unavailable"
      [] Get(col) < 0 -> "negative_column"
      [] c.voice_type # None /\ Get(c.voice_type) \notin AVAILABLE_VOICES
            -> "voice_type"
      [] c.language # None
           /\ lang_lower(Get(c.language)) \notin DOMAIN LANGUAGE_INSTRUCTIONS
            -> "language"
      [] OTHER -> "none"

\* the if/elif chain of the voice checks: the first check that fails
voice_problem(c, col) ==
    CASE col = None -> "none"
      [] ~c.voice_available -> "unavailable"
      [] Get(col) < 0 -> "negative_column"
      [] c.voice_type # None /\ Get(c.voice_type) \notin AVAILABLE_VOICES
            -> "voice_type"
      [] c.language # None
           /\ lang_lower(Get(c.language)) \notin DOMAIN LANGUAGE_INSTRUCTIONS
            -> "language"
      [] ~c.api_key -> "api_key"
      [] OTHER -> "none"

CheckVoiceOk ==
    /\ pc = "check_voice"
    /\ voice_problem(cfg, voice_col) = "none"
    /\ pc' = "load"
    /\ UNCHANGED <<cfg, voice_col, exit_code, cards, current_cards,
                   round_num, all_results, correct_cards, incorrect_cards, idx,
                   voice_enabled, voice_reader, event, voice_dismissed>>
    /\ UNCHANGED <<reader_vars, grade_vars>>

\* a voice check whose accepted prompt leaves the voice column set
CheckVoiceErrorKeepsVoice(accept) ==
    /\ pc = "check_voice"
    /\ voice_problem(cfg, voice_col) # "none"
    /\ IF accept
       THEN /\ pc' = "load"
            /\ event' = Ev("voice_config_error", <<>>, TRUE)
            /\ UNCHANGED exit_code
       ELSE Exit(1, Ev("voice_config_error", <<>>, FALSE))
    /\ UNCHANGED <<cfg, voice_col, cards, current_cards, round_num, all_results,
                   correct_cards, incorrect_cards, idx, voice_enabled,
                   voice_reader, voice_dismissed>>
    /\ UNCHANGED <<reader_vars, grade_vars>>

\* a voice check failed: the message, then "Continue without voice?"
CheckVoiceError(accept) ==
    /\ pc = "check_voice"
    /\ voice_problem(cfg, voice_col) # "none"
    /\ IF accept
       THEN /\ voice_col' = None
            /\ pc' = "load"
            /\ event' = Ev("voice_config_error", <<>>, TRUE)
            /\ UNCHANGED exit_code
       ELSE /\ Exit(1, Ev("voice_config_error", <<>>, FALSE))
            /\ UNCHANGED voice_col
    /\ UNCHANGED <<cfg, cards, current_cards, round_num, all_results,
                   correct_cards, incorrect_cards, idx, voice_enabled,
                   voice_reader, voice_dismissed>>
    /\ UNCHANGED <<reader_vars, grade_vars>>

(* ------------------------------ load_cards ----------------------------- *)
max(a, b) == IF a > b THEN a ELSE b

\* a loader that trims the fields it keeps
RECURSIVE load_cards_trimming(_, _, _)
load_cards_trimming(rows, from_col, to_col) ==
    IF rows = <<>> THEN <<>>
    ELSE LET row == Head(rows)
             rest == load_cards_trimming(Tail(rows), from_col, to_col)
         IN  IF Len(row) > max(from_col, to_col)
             THEN <<<<strip(row[from_col + 1]), strip(row[to_col + 1])>>>> \o rest
             ELSE rest

\* the rows of the reader that are long enough, as (row[from_col], row[to_col])
RECURSIVE load_cards(_, _, _)
load_cards(rows, from_col, to_col) ==
    IF rows = <<>> THEN <<>>
    ELSE LET row == Head(rows)
             rest == load_cards(Tail(rows), from_col, to_col)
         IN  IF Len(row) > max(from_col, to_col)
             THEN <<<<row[from_col + 1], row[to_col + 1]>>>> \o rest
             ELSE rest

\* a shuffle that copies the first card over the others
shuffle_overwriting(s) == { [k \in 1..Len(s) |-> s[1]] }

\* random.shuffle: any permutation of the list
shuffle(s) ==
    { [k \in 1..Len(s) |-> s[p[k]]] : p \in Permutations(1..Len(s)) }

shuffled(flag, s) == IF flag THEN shuffle(s) ELSE {s}

\* a load_cards that returns whatever it has, an empty list included
LoadCardsAllowingEmpty(rows) ==
    /\ pc = "load"
    /\ cards' = load_cards(rows, cfg.from_col, cfg.to_col)
    /\ pc' = "loaded"
    /\ UNCHANGED <<cfg, voice_col, exit_code, current_cards, round_num,
                   all_results, correct_cards, incorrect_cards, idx,
                   voice_enabled, voice_reader, event, voice_dismissed>>
    /\ UNCHANGED <<reader_vars, grade_vars>>

\* load_cards read the file: it returns its cards, or exits when it has none
LoadCards(rows) ==
    /\ pc = "load"
    /\ LET loaded == load_cards(rows, cfg.from_col, cfg.to_col)
       IN  IF loaded = <<>>
           THEN /\ Exit(1, Ev("no_cards", <<>>, FALSE))
                /\ UNCHANGED cards
           ELSE /\ cards' = loaded
                /\ pc' = "loaded"
                /\ UNCHANGED <<exit_code, event>>
    /\ UNCHANGED <<cfg, voice_col, current_cards, round_num, all_results,
                   correct_cards, incorrect_cards, idx, voice_enabled,
                   voice_reader, voice_dismissed>>
    /\ UNCHANGED <<reader_vars, grade_vars>>

\* flash shuffles the loaded cards in place and enters its while loop
BeginSession ==
    /\ pc = "loaded"
    /\ cards' \in shuffled(cfg.shuffle, cards)
    /\ current_cards' = cards'
    /\ round_num' = 1
    /\ all_results' = <<>>
    /\ pc' = IF current_cards' # <<>> THEN "round_start" ELSE "summary"
    /\ UNCHANGED <<cfg, voice_col, exit_code, correct_cards, incorrect_cards,
                   idx, voice_enabled, voice_reader, event, voice_dismissed>>
    /\ UNCHANGED <<reader_vars, grade_vars>>

\* open() or csv.reader raised: FileNotFoundError or any other exception
LoadFails(kind) ==
    /\ pc = "load"
    /\ Exit(1, Ev(kind, <<>>, FALSE))
    /\ UNCHANGED <<cfg, voice_col, cards, current_cards, round_num,
                   all_results, correct_cards, incorrect_cards, idx,
                   voice_enabled, voice_reader, voice_dismissed>>
    /\ UNCHANGED <<reader_vars, grade_vars>>

(* ------------------------------ VoiceReader ---------------------------- *)
\* what the remote synthesis call may do on a cache miss: succeed, fail with
\* AuthenticationError, fail before a byte is written, fail while streaming
RemoteOutcomes == {"ok", "auth_error", "error", "error_streaming"}

\* a key that keeps the spelling of the language
lang_key_as_spelled(language) == language

\* lang_key = language.lower() if language else None
lang_key(language) ==
    IF language # None THEN Some(lang_lower(Get(language))) ELSE None

instructions(language) ==
    LET key == lang_key(language)
    IN  IF key # None /\ Get(key) \in DOMAIN LANGUAGE_INSTRUCTIONS
        THEN Some(LANGUAGE_INSTRUCTIONS[Get(key)])
        ELSE None

\* a fingerprint that leaves the voice out
hash_content_without_voice(text, voice, language) ==
    text \o <<":">> \o instructions(language)

\* f"{text}:{voice}:{instructions or ''}"
hash_content(text, voice, language) ==
    text \o <<":", voice, ":">> \o instructions(language)

\* hashlib.md5(...).hexdigest(), taken to be free of collisions
md5(content) == <<"md5">> \o content

\* cache_dir / f"{content_hash}.mp3"
audio_path(text, voice, language) == md5(hash_content(text, voice, language))

AudioResult(raised, path, files, partial, remote) ==
    [raised |-> raised, path |-> path, files |-> files, partial |-> partial,
     remote |-> remote]

\* a get_audio_path that never looks for the cached file
get_audio_path_always_fetches(files, partial, text, voice, language, outcome) ==
    LET path == audio_path(text, voice, language)
    IN  IF voice \notin AVAILABLE_VOICES
        THEN AudioResult(Some("ValueError"), None, files, partial, FALSE)
        ELSE CASE outcome = "ok" ->
                    AudioResult(None, Some(path), files \cup {path},
                                partial \ {path}, TRUE)
               [] outcome = "auth_error" ->
                    AudioResult(Some("AuthError"), None, files, partial, TRUE)
               [] outcome = "error" ->
                    AudioResult(Some("Exception"), None, files, partial, TRUE)
               [] outcome = "error_streaming" ->
                    AudioResult(Some("Exception"), None, files \cup {path},
                                partial \cup {path}, TRUE)

\* a get_audio_path that fetches again a file that a failed stream left behind
get_audio_path_refetching_partial(files, partial, text, voice, language, outcome) ==
    LET path == audio_path(text, voice, language)
    IN  IF voice \notin AVAILABLE_VOICES
        THEN AudioResult(Some("ValueError"), None, files, partial, FALSE)
        ELSE IF path \in files \ partial
        THEN AudioResult(None, Some(path), files, partial, FALSE)
        ELSE CASE outcome = "ok" ->
                    AudioResult(None, Some(path), files \cup {path},
                                partial \ {path}, TRUE)
               [] outcome = "auth_error" ->
                    AudioResult(Some("AuthError"), None, files, partial, TRUE)
               [] outcome = "error" ->
                    AudioResult(Some("Exception"), None, files, partial, TRUE)
               [] outcome = "error_streaming" ->
                    AudioResult(Some("Exception"), None, files \cup {path},
                                partial \cup {path}, TRUE)

\* a get_audio_path that looks for the cached file before it checks the voice
get_audio_path_validates_late(files, partial, text, voice, language, outcome) ==
    LET path == audio_path(text, voice, language)
    IN  IF path \in files
        THEN AudioResult(None, Some(path), files, partial, FALSE)
        ELSE IF voice \notin AVAILABLE_VOICES
        THEN AudioResult(Some("ValueError"), None, files, partial, FALSE)
        ELSE CASE outcome = "ok" ->
                    AudioResult(None, Some(path), files \cup {path}, partial, TRUE)
               [] outcome = "auth_error" ->
                    AudioResult(Some("AuthError"), None, files, partial, TRUE)
               [] outcome = "error" ->
                    AudioResult(Some("Exception"), None, files, partial, TRUE)
               [] outcome = "error_streaming" ->
                    AudioResult(Some("Exception"), None, files \cup {path},
                                partial \cup {path}, TRUE)

\* get_audio_path on a cache directory holding `files`
get_audio_path(files, partial, text, voice, language, outcome) ==
    LET path == audio_path(text, voice, language)
    IN  IF voice \notin AVAILABLE_VOICES
        THEN AudioResult(Some("ValueError"), None, files, partial, FALSE)
        ELSE IF path \in files
        THEN AudioResult(None, Some(path), files, partial, FALSE)
        ELSE CASE outcome = "ok" ->
                    AudioResult(None, Some(path), files \cup {path}, partial, TRUE)
               [] outcome = "auth_error" ->
                    AudioResult(Some("AuthError"), None, files, partial, TRUE)
               [] outcome = "error" ->
                    AudioResult(Some("Exception"), None, files, partial, TRUE)
               [] outcome = "error_streaming" ->
                    AudioResult(Some("Exception"), None, files \cup {path},
                                partial \cup {path}, TRUE)

\* does the call get as far as the remote synthesis call?
reaches_remote(files, text, voice, language) ==
    voice \in AVAILABLE_VOICES /\ audio_path(text, voice, language) \notin files

\* the outcomes of the remote call that a call can meet: all of them if it
\* makes the remote call, and none to tell apart if it does not
outcomes_of(files, text, voice, language) ==
    IF reaches_remote(files, text, voice, language) THEN RemoteOutcomes ELSE {"ok"}

Thread(path) == [path |-> path, alive |-> TRUE]

is_alive(t) == t.alive

\* a play_audio that keeps the finished threads
play_audio_keeping_finished(threads, files, path) ==
    IF path \notin files
    THEN None
    ELSE Some(Append(threads, Thread(path)))

\* a play_audio that does not look for the file
play_audio_unchecked(threads, files, path) ==
    Some(Append(SelectSeq(threads, is_alive), Thread(path)))

\* play_audio: None when the file is missing (FileNotFoundError), else the
\* tracked threads after pruning and appending the started thread
play_audio(threads, files, path) ==
    IF path \notin files
    THEN None
    ELSE Some(Append(SelectSeq(threads, is_alive), Thread(path)))

SpeakResult(raised, threads, got, op) ==
    [raised |-> raised, threads |-> threads, files |-> got.files,
     partial |-> got.partial, op |-> op]

\* speak: get_audio_path, then play_audio; every exception is re-raised
speak(threads, files, partial, text, voice, language, outcome) ==
    LET got == get_audio_path(files, partial, text, voice, language, outcome)
        played == play_audio(threads, got.files, Get(got.path))
        key == <<text, voice, language>>
    IN  IF got.raised # None
        THEN SpeakResult(TRUE, threads, got,
                         VoiceOp("speak", key, got.remote, got.raised, None))
        ELSE IF played = None
        THEN SpeakResult(TRUE, threads, got,
                         VoiceOp("speak", key, got.remote,
                                 Some("FileNotFoundError"), None))
        ELSE SpeakResult(FALSE, Get(played), got,
                         VoiceOp("speak", key, got.remote, None, got.path))

(* ------------------------------- run_round ----------------------------- *)
\* voice_enabled = VOICE_AVAILABLE and voice_col is not None
voice_wanted(available, col) == available /\ col # None

\* the first step of a card: narration if it is on, else the question
card_pc(enabled, reader) ==
    IF enabled /\ reader # None THEN "narrate" ELSE "ask"

\* the for loop over the cards is entered, or has nothing to do
first_pc(round_cards, enabled, reader) ==
    IF round_cards # <<>> THEN card_pc(enabled, reader) ELSE "round_end"

\* the round starts without narration, or with a reader that was built
StartRound ==
    /\ pc = "round_start"
    /\ LET enabled == voice_wanted(cfg.voice_available, voice_col)
           reader == IF enabled THEN Some("VoiceReader") ELSE None
       IN  /\ voice_enabled' = enabled
           /\ voice_reader' = reader
           /\ active_playback_threads' =
                  IF enabled THEN <<>> ELSE active_playback_threads
           /\ pc' = first_pc(current_cards, enabled, reader)
    /\ correct_cards' = <<>>
    /\ incorrect_cards' = <<>>
    /\ idx' = 1
    /\ event' = Ev("round_header", <<>>, TRUE)
    /\ UNCHANGED <<cfg, voice_col, exit_code, cards, current_cards,
                   round_num, all_results, voice_dismissed>>
    /\ UNCHANGED <<cache_files, partial_files, voice_op, grade_vars>>

\* VoiceReader() raised; the user is asked "Continue without voice?"
ReaderInitError(accept) ==
    /\ pc = "round_start"
    /\ voice_wanted(cfg.voice_available, voice_col)
    /\ IF accept
       THEN /\ voice_enabled' = FALSE
            /\ voice_dismissed' = TRUE
            /\ correct_cards' = <<>>
            /\ incorrect_cards' = <<>>
            /\ idx' = 1
            /\ pc' = first_pc(current_cards, FALSE, None)
            /\ event' = Ev("round_header", <<>>, FALSE)
            /\ UNCHANGED exit_code
       ELSE /\ Exit(1, Ev("reader_error", <<>>, FALSE))
            /\ UNCHANGED <<voice_enabled, voice_dismissed, correct_cards,
                           incorrect_cards, idx>>
    /\ voice_reader' = None
    /\ UNCHANGED <<cfg, voice_col, cards, current_cards, round_num,
                   all_results>>
    /\ UNCHANGED <<reader_vars, grade_vars>>

\* text_to_speak = question if voice_col == 0 else answer
text_to_speak(col, card) == IF col = Some(0) THEN card[1] ELSE card[2]

\* a narration that uses the default voice whatever voice is given
voice_always_default(voice) == DEFAULT_VOICE

\* voice or DEFAULT_VOICE
voice_or_default(voice) == IF voice # None THEN Get(voice) ELSE DEFAULT_VOICE

CardOutcomes ==
    outcomes_of(cache_files, text_to_speak(voice_col, current_cards[idx]),
                voice_or_default(cfg.voice_type), cfg.language)

SpeakCard(outcome) ==
    speak(active_playback_threads, cache_files, partial_files,
          text_to_speak(voice_col, current_cards[idx]),
          voice_or_default(cfg.voice_type), cfg.language, outcome)

\* voice_reader.speak returned
Speak(outcome) ==
    /\ pc = "narrate"
    /\ outcome \in CardOutcomes
    /\ LET r == SpeakCard(outcome)
       IN  /\ ~r.raised
           /\ active_playback_threads' = r.threads
           /\ cache_files' = r.files
           /\ partial_files' = r.partial
           /\ event' = Ev("speak", r.op.key[1], TRUE)
    /\ pc' = "ask"
    /\ UNCHANGED <<cfg, voice_col, exit_code, cards, current_cards,
                   round_num, all_results, correct_cards, incorrect_cards, idx,
                   voice_enabled, voice_reader, voice_dismissed, voice_op,
                   grade_vars>>

\* the for loop goes to the next card, or the round is over
NextCard ==
    IF idx < Len(current_cards)
    THEN idx' = idx + 1 /\ pc' = card_pc(voice_enabled, voice_reader)
    ELSE pc' = "round_end" /\ UNCHANGED idx

\* a narration failure that drops the card: the loop goes on to the next one
SpeakErrorSkipsCard(outcome, accept) ==
    /\ pc = "narrate"
    /\ outcome \in CardOutcomes
    /\ LET r == SpeakCard(outcome)
       IN  /\ r.raised
           /\ active_playback_threads' = r.threads
           /\ cache_files' = r.files
           /\ partial_files' = r.partial
           /\ IF accept
              THEN /\ voice_enabled' = FALSE
                   /\ voice_dismissed' = TRUE
                   /\ NextCard
                   /\ event' = Ev("voice_error", r.op.key[1], TRUE)
                   /\ UNCHANGED exit_code
              ELSE /\ Exit(1, Ev("voice_error", r.op.key[1], FALSE))
                   /\ UNCHANGED <<voice_enabled, voice_dismissed, idx>>
    /\ UNCHANGED <<cfg, voice_col, cards, current_cards, round_num,
                   all_results, correct_cards, incorrect_cards,
                   voice_reader, voice_op, grade_vars>>

\* voice_reader.speak raised; the user is asked "Continue without voice?"
SpeakError(outcome, accept) ==
    /\ pc = "narrate"
    /\ outcome \in CardOutcomes
    /\ LET r == SpeakCard(outcome)
       IN  /\ r.raised
           /\ active_playback_threads' = r.threads
           /\ cache_files' = r.files
           /\ partial_files' = r.partial
           /\ IF accept
              THEN /\ voice_enabled' = FALSE
                   /\ voice_dismissed' = TRUE
                   /\ pc' = "ask"
                   /\ event' = Ev("voice_error", r.op.key[1], TRUE)
                   /\ UNCHANGED exit_code
              ELSE /\ Exit(1, Ev("voice_error", r.op.key[1], FALSE))
                   /\ UNCHANGED <<voice_enabled, voice_dismissed>>
    /\ UNCHANGED <<cfg, voice_col, cards, current_cards, round_num,
                   all_results, correct_cards, incorrect_cards, idx,
                   voice_reader, voice_op, grade_vars>>

\* a playback thread whose failure reaches the command and ends it
PlaybackEndsSurfacing(k) ==
    /\ pc # "exited"
    /\ k \in DOMAIN active_playback_threads
    /\ active_playback_threads[k].alive
    /\ active_playback_threads' =
           [active_playback_threads EXCEPT ![k].alive = FALSE]
    /\ Exit(1, Ev("playback_error", <<>>, FALSE))
    /\ UNCHANGED <<cfg, voice_col, cards, current_cards, round_num,
                   all_results, correct_cards, incorrect_cards, idx,
                   voice_enabled, voice_reader, voice_dismissed>>
    /\ UNCHANGED <<cache_files, partial_files, voice_op, grade_vars>>

\* a playback thread ends: the player returned, or failed and was silenced
PlaybackEnds(k) ==
    /\ pc # "exited"
    /\ k \in DOMAIN active_playback_threads
    /\ active_playback_threads[k].alive
    /\ active_playback_threads' =
           [active_playback_threads EXCEPT ![k].alive = FALSE]
    /\ UNCHANGED <<session_vars, cache_files, partial_files, voice_op,
                   grade_vars>>

\* a list that grows at the wrong end
prepend_card(list, card) == <<card>> \o list

\* correct_cards.append / incorrect_cards.append
append_card(list, card) == Append(list, card)

\* a grading that puts a card answered correctly on both lists
graded_repeating_correct(correct, incorrect, card, ok) ==
    IF ok THEN <<append_card(correct, card), append_card(incorrect, card)>>
    ELSE <<correct, append_card(incorrect, card)>>

\* the lists after grading one card
graded(correct, incorrect, card, ok) ==
    IF ok THEN <<append_card(correct, card), incorrect>>
    ELSE <<correct, append_card(incorrect, card)>>

\* must the user retype the answer of a card graded not ok?
needs_confirmation(confirm, ok) == ~ok /\ confirm

\* the question is shown, the answer is read and graded
Answer(user_answer) ==
    /\ pc = "ask"
    /\ LET card == current_cards[idx]
           ok == is_match(user_answer, card[2])
           lists == graded(correct_cards, incorrect_cards, card, ok)
       IN  /\ correct_cards' = lists[1]
           /\ incorrect_cards' = lists[2]
           /\ event' = Ev("graded", user_answer, ok)
           /\ IF needs_confirmation(cfg.confirm, ok)
              THEN pc' = "confirm" /\ UNCHANGED idx
              ELSE NextCard
    /\ UNCHANGED <<cfg, voice_col, exit_code, cards, current_cards,
                   round_num, all_results, voice_enabled, voice_reader,
                   voice_dismissed>>
    /\ UNCHANGED <<reader_vars, grade_vars>>

\* a confirmation loop that any input ends
confirmation_any(confirmation, answer) == TRUE

\* confirmation.strip().lower() == answer.strip().lower()
confirmation_ok(confirmation, answer) == is_match(confirmation, answer)

\* the while True loop of confirm mode
Confirm(confirmation) ==
    /\ pc = "confirm"
    /\ IF confirmation_ok(confirmation, current_cards[idx][2])
       THEN NextCard /\ event' = Ev("confirmed", confirmation, TRUE)
       ELSE UNCHANGED <<pc, idx>> /\ event' = Ev("confirm_retry", confirmation, FALSE)
    /\ UNCHANGED <<cfg, voice_col, exit_code, cards, current_cards,
                   round_num, all_results, correct_cards, incorrect_cards,
                   voice_enabled, voice_reader, voice_dismissed>>
    /\ UNCHANGED <<reader_vars, grade_vars>>

(* --------------------------- flash: the session ------------------------ *)
\* a loop that forgets the recursive flag
round_is_last_ignoring_flag(recursive, incorrect) == incorrect = <<>>

\* a loop that stops after every round
round_is_last_always(recursive, incorrect) == TRUE

\* if not recursive or not incorrect_cards: break
round_is_last(recursive, incorrect) == ~recursive \/ incorrect = <<>>

\* a next round that repeats the whole round
next_round_all(current, incorrect) == current

\* current_cards = incorrect_cards
next_round(current, incorrect) == incorrect

\* correct/total*100 as "{:.1f}" prints it, in tenths of a percent
percentage(correct_count, total_count) ==
    LET tenths == (correct_count * 1000) \div total_count
        rest == (correct_count * 1000) % total_count
    IN  CASE 2 * rest > total_count -> tenths + 1
          [] 2 * rest = total_count -> tenths + (tenths % 2)
          [] OTHER -> tenths

\* a round summary that is printed for an empty round too
round_summary_unguarded(round_cards, correct, incorrect, before) ==
    IF round_cards # <<>>
    THEN Ev("round_summary",
            <<Len(correct), Len(round_cards),
              percentage(Len(correct), Len(round_cards))>>,
            incorrect = <<>>)
    ELSE Ev("round_summary", <<0, 0, 0>>, TRUE)

\* if cards: the round's line, with its percentage; else nothing is printed
round_summary(round_cards, correct, incorrect, before) ==
    IF round_cards # <<>>
    THEN Ev("round_summary",
            <<Len(correct), Len(round_cards),
              percentage(Len(correct), Len(round_cards))>>,
            incorrect = <<>>)
    ELSE before

\* a record that counts the incorrect cards as the correct ones
round_result_of_incorrect(current, incorrect) == <<Len(incorrect), Len(current)>>

\* all_results[round_num] = (len(current) - len(incorrect), len(current))
round_result(current, incorrect) == <<Len(current) - Len(incorrect), Len(current)>>

\* run_round prints its summary and returns; flash records the round and
\* either leaves the loop or prepares the next round
FinishRound ==
    /\ pc = "round_end"
    /\ all_results' =
           (round_num :> round_result(current_cards, incorrect_cards)) @@ all_results
    /\ event' = round_summary(current_cards, correct_cards, incorrect_cards, event)
    /\ IF round_is_last(cfg.recursive, incorrect_cards)
       THEN /\ pc' = "summary"
            /\ UNCHANGED <<current_cards, round_num, incorrect_cards>>
       ELSE /\ round_num < MaxRounds
            /\ incorrect_cards' \in shuffled(cfg.shuffle, incorrect_cards)
            /\ current_cards' = next_round(current_cards, incorrect_cards')
            /\ round_num' = round_num + 1
            /\ pc' = IF current_cards' # <<>> THEN "round_start" ELSE "summary"
    /\ UNCHANGED <<cfg, voice_col, exit_code, cards, correct_cards, idx,
                   voice_enabled, voice_reader, voice_dismissed>>
    /\ UNCHANGED <<reader_vars, grade_vars>>

\* a final summary that is printed after a single round too
has_final_summary_any(recursive, rounds) == recursive

\* is the final summary printed?
has_final_summary(recursive, rounds) == recursive /\ rounds > 1

\* the lines of the final summary: for r, (correct, total) in all_results.items()
summary_lines(results) ==
    [r \in DOMAIN results |->
        <<r, results[r][1], results[r][2], percentage(results[r][1], results[r][2])>>]

\* the final summary, if any, and the normal end of the command
FinalSummary ==
    /\ pc = "summary"
    /\ IF has_final_summary(cfg.recursive, round_num)
       THEN event' = Ev("final_summary", summary_lines(all_results),
                        incorrect_cards = <<>>)
       ELSE event' = Ev("finished", <<>>, FALSE)
    /\ pc' = "exited"
    /\ exit_code' = Some(0)
    /\ UNCHANGED <<cfg, voice_col, cards, current_cards, round_num,
                   all_results, correct_cards, incorrect_cards, idx,
                   voice_enabled, voice_reader, voice_dismissed>>
    /\ UNCHANGED <<reader_vars, grade_vars>>

Next ==
    \/ \E exists \in BOOLEAN : ParseArgs(exists)
    \/ Validate
    \/ CheckVoiceOk
    \/ \E accept \in BOOLEAN : CheckVoiceError(accept)
    \/ \E rows \in Files : LoadCards(rows)
    \/ BeginSession
    \/ \E kind \in {"not_found", "read_error"} : LoadFails(kind)
    \/ StartRound
    \/ \E accept \in BOOLEAN : ReaderInitError(accept)
    \/ \E outcome \in RemoteOutcomes : Speak(outcome)
    \/ \E outcome \in RemoteOutcomes, accept \in BOOLEAN : SpeakError(outcome, accept)
    \/ \E k \in DOMAIN active_playback_threads : PlaybackEnds(k)
    \/ \E user_answer \in InputPool : Answer(user_answer)
    \/ \E confirmation \in InputPool : Confirm(confirmation)
    \/ FinishRound
    \/ FinalSummary

Spec == Init /\ [][Next]_vars

(* ------------------- the grading comparison on its own ------------------ *)
Texts == SeqsUpTo(Chars, MaxLen)

\* no command is running: the session variables are at rest
SessionAtRest(at) ==
    /\ cfg = Config(FALSE, FALSE, FALSE, <<0, 1>>,
                    VoiceSetup(None, Some(DEFAULT_VOICE), None, TRUE, TRUE))
    /\ voice_col = None
    /\ pc = at
    /\ exit_code = None
    /\ cards = <<>>
    /\ current_cards = <<>>
    /\ round_num = 0
    /\ all_results = <<>>
    /\ correct_cards = <<>>
    /\ incorrect_cards = <<>>
    /\ idx = 0
    /\ voice_enabled = FALSE
    /\ voice_reader = None
    /\ event = Ev("none", <<>>, FALSE)
    /\ voice_dismissed = FALSE

InitGrade ==
    /\ SessionAtRest("grade")
    /\ active_playback_threads = <<>>
    /\ cache_files = {}
    /\ partial_files = {}
    /\ voice_op = NoOp
    /\ g_user \in Texts
    /\ g_answer \in Texts
    /\ g_result = None
    /\ CallIdle

\* the comparison of run_round applied to an input and a stored answer
Grade ==
    /\ pc = "grade"
    /\ g_result = None
    /\ g_result' = Some(is_match(g_user, g_answer))
    /\ UNCHANGED <<session_vars, reader_vars, g_user, g_answer, call_vars>>

NextGrade == Grade

SpecGrade == InitGrade /\ [][NextGrade]_vars

(* ------------------------ a VoiceReader on its own ---------------------- *)
VoiceTexts == { <<"a">>, <<"b">> }

VoiceNames == { DEFAULT_VOICE, "bogus" }

VoiceLanguages == { None, Some("French"), Some("klingon") }

\* the paths a caller may hand to play_audio: those of the cache directory
\* and one that is no file of it
PlayablePaths ==
    { audio_path(t, v, l) :
        t \in VoiceTexts, v \in VoiceNames \cap AVAILABLE_VOICES, l \in VoiceLanguages }
    \cup { <<"elsewhere">> }

InitVoice ==
    /\ SessionAtRest("voice")
    /\ GradeIdle
    /\ active_playback_threads = <<>>
    /\ cache_files = {}
    /\ partial_files = {}
    /\ voice_op = NoOp

GetAudioPath(text, voice, language, outcome) ==
    /\ pc = "voice"
    /\ outcome \in outcomes_of(cache_files, text, voice, language)
    /\ LET got == get_audio_path(cache_files, partial_files, text, voice,
                                 language, outcome)
       IN  /\ cache_files' = got.files
           /\ partial_files' = got.partial
           /\ voice_op' = VoiceOp("get_audio_path", <<text, voice, language>>,
                                  got.remote, got.raised, got.path)
    /\ UNCHANGED <<session_vars, active_playback_threads, grade_vars>>

PlayAudio(path) ==
    /\ pc = "voice"
    /\ Len(SelectSeq(active_playback_threads, is_alive)) < MaxThreads
    /\ LET played == play_audio(active_playback_threads, cache_files, path)
       IN  IF played = None
           THEN /\ voice_op' = VoiceOp("play_audio", path, FALSE,
                                       Some("FileNotFoundError"), None)
                /\ UNCHANGED active_playback_threads
           ELSE /\ voice_op' = VoiceOp("play_audio", path, FALSE, None, Some(path))
                /\ active_playback_threads' = Get(played)
    /\ UNCHANGED <<session_vars, cache_files, partial_files, grade_vars>>

SpeakText(text, voice, language, outcome) ==
    /\ pc = "voice"
    /\ Len(SelectSeq(active_playback_threads, is_alive)) < MaxThreads
    /\ outcome \in outcomes_of(cache_files, text, voice, language)
    /\ LET r == speak(active_playback_threads, cache_files, partial_files,
                      text, voice, language, outcome)
       IN  /\ active_playback_threads' = r.threads
           /\ cache_files' = r.files
           /\ partial_files' = r.partial
           /\ voice_op' = r.op
    /\ UNCHANGED <<session_vars, grade_vars>>

NextVoice ==
    \/ \E text \in VoiceTexts, voice \in VoiceNames, language \in VoiceLanguages,
          outcome \in RemoteOutcomes : GetAudioPath(text, voice, language, outcome)
    \/ \E path \in PlayablePaths : PlayAudio(path)
    \/ \E text \in VoiceTexts, voice \in VoiceNames, language \in VoiceLanguages,
          outcome \in RemoteOutcomes : SpeakText(text, voice, language, outcome)
    \/ \E k \in DOMAIN active_playback_threads : PlaybackEnds(k)

SpecVoice == InitVoice /\ [][NextVoice]_vars

(* --------------------- the fingerprint of two calls -------------------- *)
\* texts, one of them holding the separator and a voice name
FpTexts == { <<"a">>, <<"b">>, <<"a", ":", DEFAULT_VOICE>> }

FpVoices == { DEFAULT_VOICE, "nova", "bogus" }

\* no language, one language in three spellings, a second language, and a
\* language that is not in LANGUAGE_INSTRUCTIONS
FpLanguages ==
    { None, Some("french"), Some("French"), Some("FRENCH"), Some("English"),
      Some("klingon") }

FpCalls == FpTexts \X FpVoices \X FpLanguages

InitFingerprint ==
    /\ SessionAtRest("fingerprint")
    /\ active_playback_threads = <<>>
    /\ cache_files = {}
    /\ partial_files = {}
    /\ voice_op = NoOp
    /\ g_user = <<>> /\ g_answer = <<>> /\ g_result = None
    /\ call_args \in FpCalls \X FpCalls
    /\ call_result = None

\* the path get_audio_path returns for a call on an empty cache directory,
\* None when it raises
returned_path(call) ==
    get_audio_path({}, {}, call[1], call[2], call[3], "ok").path

\* get_audio_path applied to each of the two calls
Fingerprint ==
    /\ pc = "fingerprint"
    /\ call_result = None
    /\ call_result' = Some(<<returned_path(call_args[1]), returned_path(call_args[2])>>)
    /\ UNCHANGED <<session_vars, reader_vars, g_user, g_answer, g_result, call_args>>

NextFingerprint == Fingerprint

SpecFingerprint == InitFingerprint /\ [][NextFingerprint]_vars

(* --------------------------- load_cards on its own --------------------- *)
\* the rows csv.reader may yield: a blank line, one field, an empty answer,
\* an empty question, fields with whitespace around them, three fields
LoadRowPool ==
    { <<>>,
      << <<"a">> >>,
      << <<"a">>, <<>> >>,
      << <<>>, <<"b">> >>,
      << <<" ", "B">>, <<"b", " ">> >>,
      << <<"a">>, <<"b">>, <<"A">> >> }

LoadFiles == SeqsUpTo(LoadRowPool, MaxRows)

\* from_col and to_col as load_cards may be handed them
LoadColumns == 0..2

InitLoad ==
    /\ SessionAtRest("load_cards")
    /\ active_playback_threads = <<>>
    /\ cache_files = {}
    /\ partial_files = {}
    /\ voice_op = NoOp
    /\ g_user = <<>> /\ g_answer = <<>> /\ g_result = None
    /\ call_args \in LoadFiles \X LoadColumns \X LoadColumns
    /\ call_result = None

\* the loop of load_cards over the rows of the file
Load ==
    /\ pc = "load_cards"
    /\ call_result = None
    /\ call_result' = Some(load_cards(call_args[1], call_args[2], call_args[3]))
    /\ UNCHANGED <<session_vars, reader_vars, g_user, g_answer, g_result, call_args>>

NextLoad == Load

SpecLoad == InitLoad /\ [][NextLoad]_vars

(* ------------------ run_round called without the command -------------- *)
\* the lists of cards run_round may be handed, the empty list among them
RoundInputs ==
    SeqsUpTo({ << <<"a">>, <<" ", "B">> >>, << <<"b">>, <<"A">> >> }, MaxRows)

\* confirm mode on and off; without narration, with narration of column 0,
\* and with narration of column 1 with no voice given
RoundConfigs ==
    { Config(FALSE, c, FALSE, <<0, 1>>, v) :
        c \in BOOLEAN,
        v \in { VoiceSetup(None, Some(DEFAULT_VOICE), None, TRUE, TRUE),
                VoiceSetup(Some(0), Some(DEFAULT_VOICE), None, TRUE, TRUE),
                VoiceSetup(Some(1), None, Some("French"), TRUE, TRUE) } }

\* run_round(cards, confirm, 1, voice_col, voice, language) is entered
InitRound ==
    /\ cfg \in RoundConfigs
    /\ voice_col = cfg.voice_col
    /\ pc = "round_start"
    /\ exit_code = None
    /\ cards = <<>>
    /\ current_cards \in RoundInputs
    /\ round_num = 1
    /\ all_results = <<>>
    /\ correct_cards = <<>>
    /\ incorrect_cards = <<>>
    /\ idx = 0
    /\ voice_enabled = FALSE
    /\ voice_reader = None
    /\ active_playback_threads = <<>>
    /\ cache_files = {}
    /\ partial_files = {}
    /\ event = Ev("none", <<>>, FALSE)
    /\ voice_dismissed = FALSE
    /\ voice_op = NoOp
    /\ GradeIdle

\* run_round runs on its own: flash has loaded no cards and is not before
\* its loop
DirectCall ==
    /\ cards = <<>>
    /\ pc \in {"round_start", "narrate", "ask", "confirm", "round_end", "returned"}

\* the end of run_round called on its own: the summary of a round that had
\* cards, and the return of the two lists
RoundReturns ==
    /\ DirectCall
    /\ pc = "round_end"
    /\ pc' = "returned"
    /\ event' = round_summary(current_cards, correct_cards, incorrect_cards, event)
    /\ call_result' = Some(<<correct_cards, incorrect_cards>>)
    /\ UNCHANGED <<cfg, voice_col, exit_code, cards, current_cards, round_num,
                   all_results, correct_cards, incorrect_cards, idx,
                   voice_enabled, voice_reader, voice_dismissed>>
    /\ UNCHANGED <<reader_vars, g_user, g_answer, g_result, call_args>>

\* the end of a round that flash called
RoundReturnsToFlash ==
    /\ ~DirectCall
    /\ FinishRound

\* the command as a whole, or run_round called on its own
NextRoundCalls ==
    \/ \E exists \in BOOLEAN : ParseArgs(exists)
    \/ Validate
    \/ CheckVoiceOk
    \/ \E accept \in BOOLEAN : CheckVoiceError(accept)
    \/ \E rows \in Files : LoadCards(rows)
    \/ BeginSession
    \/ \E kind \in {"not_found", "read_error"} : LoadFails(kind)
    \/ StartRound
    \/ \E accept \in BOOLEAN : ReaderInitError(accept)
    \/ \E outcome \in RemoteOutcomes : Speak(outcome)
    \/ \E outcome \in RemoteOutcomes, accept \in BOOLEAN : SpeakError(outcome, accept)
    \/ \E k \in DOMAIN active_playback_threads : PlaybackEnds(k)
    \/ \E user_answer \in InputPool : Answer(user_answer)
    \/ \E confirmation \in InputPool : Confirm(confirmation)
    \/ RoundReturnsToFlash
    \/ RoundReturns
    \/ FinalSummary

SpecRoundCalls == (Init \/ InitRound) /\ [][NextRoundCalls]_vars

(* ----------------------- helpers of the properties --------------------- *)
\* the command is inside run_round
InRound == pc \in {"narrate", "ask", "confirm", "round_end"}

\* the cards have been loaded and the session loop has been entered
InSession == round_num >= 1

\* the cards of s at the positions where mask is b, in order
RECURSIVE Picked(_, _, _)
Picked(s, mask, b) ==
    IF s = <<>> THEN <<>>
    ELSE (IF mask[1] = b THEN <<s[1]>> ELSE <<>>)
         \o Picked(Tail(s), Tail(mask), b)

Count(s, x) == Cardinality({k \in DOMAIN s : s[k] = x})

\* the same cards with the same multiplicities
SameCards(s, t) ==
    /\ Len(s) = Len(t)
    /\ \A k \in DOMAIN s : Count(s, s[k]) = Count(t, s[k])

RECURSIVE SumCorrect(_, _)
SumCorrect(results, n) ==
    IF n = 0 THEN 0 ELSE results[n][1] + SumCorrect(results, n - 1)

(* -------------------------------- claims ------------------------------- *)
\* C1: when run_round returns, correct and incorrect partition its input:
\* the lengths add up, and some assignment of every input position to one of
\* the two lists yields both lists, each in input order (duplicates included).
C1_RoundPartitions ==
    pc = "round_end" =>
        /\ Len(correct_cards) + Len(incorrect_cards) = Len(current_cards)
        /\ \E mask \in [1..Len(current_cards) -> BOOLEAN] :
              /\ correct_cards = Picked(current_cards, mask, TRUE)
              /\ incorrect_cards = Picked(current_cards, mask, FALSE)

\* C1 witness: a round over the same card twice has returned with one
\* occurrence in each list.
C1_Witness ==
    /\ pc = "round_end"
    /\ Len(current_cards) = 2
    /\ Len(correct_cards) = 1
    /\ Len(incorrect_cards) = 1
    /\ correct_cards[1] = incorrect_cards[1]

Rounds == Cardinality(DOMAIN all_results)

\* C2 as claimed: a session never runs more rounds than it loaded cards.
C2_AtMostLenRounds == InSession => round_num <= Len(cards)

\* C2 amended: the rounds are not bounded by the number of cards, the correct
\* answers are: over all recorded rounds at most len(cards) cards are graded
\* correct, so at most len(cards) rounds contain a correct answer; and a
\* recursive session that ends normally ended on an empty incorrect set.
C2_CorrectAnswersBounded ==
    InSession =>
        /\ SumCorrect(all_results, Rounds) <= Len(cards)
        /\ Cardinality({r \in DOMAIN all_results : all_results[r][1] > 0})
               <= Len(cards)
        /\ (cfg.recursive /\ exit_code = Some(0)) => incorrect_cards = <<>>

\* C2 witness: a session of more rounds than cards has ended normally.
C2_Witness ==
    /\ exit_code = Some(0)
    /\ round_num > Len(cards)
    /\ SumCorrect(all_results, Rounds) = Len(cards)

\* C3: the step that leaves the end of a round goes to the final summary
\* exactly when recursive mode is off or the incorrect set is empty, and
\* otherwise starts the next round; a round starts only after loading or after
\* such a round; nothing follows the summary; with recursive off the session
\* has one round.
C3_LoopStopsExactly ==
    [][ /\ (pc = "round_end" /\ pc' # pc) =>
              IF ~cfg.recursive \/ incorrect_cards = <<>>
              THEN pc' = "summary" /\ round_num' = round_num
              ELSE pc' = "round_start" /\ round_num' = round_num + 1
        /\ (pc' = "round_start" /\ pc # pc') => pc \in {"loaded", "round_end"}
        /\ pc = "summary" => (pc' \in {"summary", "exited"} /\ round_num' = round_num)
        /\ pc = "exited" => pc' = "exited"
        /\ ~cfg.recursive => round_num' <= 1
      ]_vars

\* C3 witness: a recursive session ran a second round after a round with
\* incorrect cards and stopped after a round without.
C3_Witness ==
    /\ cfg.recursive
    /\ pc = "summary"
    /\ round_num = 2
    /\ all_results[1][1] < all_results[1][2]
    /\ incorrect_cards = <<>>

\* C4: the input of round n+1 is the incorrect list of round n, the same
\* cards with the same multiplicities, and the same list when shuffle is off;
\* the input of round 1 is the list load_cards returned, under the same
\* conditions; the input of a round does not change while the round runs.
C4_NextRoundInput ==
    [][ /\ (pc = "round_end" /\ pc' = "round_start") =>
              /\ SameCards(current_cards', incorrect_cards)
              /\ ~cfg.shuffle => current_cards' = incorrect_cards
        /\ (pc = "loaded" /\ pc' = "round_start") =>
              /\ SameCards(current_cards', cards)
              /\ ~cfg.shuffle => current_cards' = cards
        /\ pc \in {"round_start", "narrate", "ask", "confirm"} =>
              current_cards' = current_cards
      ]_vars

\* C4 witness: with shuffle on, a second round starts over two different
\* cards that the first round returned as incorrect.
C4_Witness ==
    /\ cfg.shuffle
    /\ pc = "round_start"
    /\ round_num = 2
    /\ Len(current_cards) = 2
    /\ current_cards[1] # current_cards[2]

\* the part of s between its first and its last character that is not
\* whitespace
Trimmed(s) ==
    LET solid == {k \in DOMAIN s : s[k] \notin Whitespace}
    IN  IF solid = {} THEN <<>>
        ELSE SubSeq(s, CHOOSE k \in solid : \A j \in solid : k <= j,
                       CHOOSE k \in solid : \A j \in solid : k >= j)

\* the same character, or the two cases of one letter
SameLetter(c, d) == c = d \/ {c, d} = {"a", "A"} \/ {c, d} = {"b", "B"}

\* equal once trimmed, letter case apart
FoldedEqual(s, t) ==
    /\ Len(Trimmed(s)) = Len(Trimmed(t))
    /\ \A k \in DOMAIN Trimmed(s) : SameLetter(Trimmed(s)[k], Trimmed(t)[k])

OtherCase(c) ==
    CASE c = "a" -> "A" [] c = "A" -> "a" [] c = "b" -> "B" [] c = "B" -> "b"
      [] OTHER -> c

\* s with the case of the letters at the positions in where changed
Recased(s, where) ==
    [k \in DOMAIN s |-> IF k \in where THEN OtherCase(s[k]) ELSE s[k]]

Pads == {<<>>, <<" ">>, <<"\t">>, <<"\t", " ">>}

\* C5: the grade is correct exactly when input and answer are equal once
\* trimmed and case apart, and it does not change when whitespace is put
\* around the input or the answer or when the case of any of their letters is
\* changed.
C5_GradeIsTrimmedFoldedEquality ==
    g_result # None =>
        /\ Get(g_result) = FoldedEqual(g_user, g_answer)
        /\ \A l \in Pads, r \in Pads :
              /\ is_match(l \o g_user \o r, g_answer) = Get(g_result)
              /\ is_match(g_user, l \o g_answer \o r) = Get(g_result)
        /\ \A where \in SUBSET (1..MaxLen) :
              /\ is_match(Recased(g_user, where), g_answer) = Get(g_result)
              /\ is_match(g_user, Recased(g_answer, where)) = Get(g_result)

\* C5 witness: an input was graded correct that differs from the answer in
\* case and in surrounding whitespace.
C5_Witness ==
    /\ g_result = Some(TRUE)
    /\ Len(g_user) # Len(g_answer)
    /\ \A k \in DOMAIN g_user, j \in DOMAIN g_answer : g_user[k] # g_answer[j]
    /\ \E k \in DOMAIN g_user : g_user[k] \in Letters

ConfirmEvents == {"confirmed", "confirm_retry"}

\* C6: in confirm mode a card graded incorrect enters the confirmation loop,
\* having been appended to the incorrect list; every prompt of the loop leaves
\* both lists as they are, and the loop is left, for the next card or the end
\* of the round, exactly by an input equal to the answer once trimmed and case
\* apart; nothing else enters the loop, and with confirm mode off there is no
\* confirmation prompt.
C6_ConfirmLoop ==
    [][ /\ (pc = "ask" /\ pc' # pc /\ cfg.confirm /\ ~event'.ok) =>
              /\ pc' = "confirm"
              /\ idx' = idx
              /\ incorrect_cards' = Append(incorrect_cards, current_cards[idx])
              /\ correct_cards' = correct_cards
        /\ (pc' = "confirm" /\ pc # pc') =>
              (pc = "ask" /\ cfg.confirm /\ event'.kind = "graded" /\ ~event'.ok)
        /\ (pc = "confirm" /\ session_vars' # session_vars) =>
              /\ correct_cards' = correct_cards
              /\ incorrect_cards' = incorrect_cards
              /\ current_cards' = current_cards
              /\ event'.kind \in ConfirmEvents
              /\ IF FoldedEqual(event'.text, current_cards[idx][2])
                 THEN /\ event'.kind = "confirmed"
                      /\ \/ pc' = "round_end" /\ idx = Len(current_cards)
                         \/ pc' \in {"narrate", "ask"} /\ idx' = idx + 1
                 ELSE /\ event'.kind = "confirm_retry"
                      /\ pc' = "confirm"
                      /\ idx' = idx
        /\ (event'.kind \in ConfirmEvents /\ event' # event) => pc = "confirm"
        /\ ~cfg.confirm => (pc' # "confirm" /\ event'.kind \notin ConfirmEvents)
      ]_vars

\* C6 witness: a confirmation attempt failed; the loop still asks, and the
\* card is the last of the incorrect list and not in the correct list.
C6_Witness ==
    /\ pc = "confirm"
    /\ event.kind = "confirm_retry"
    /\ incorrect_cards[Len(incorrect_cards)] = current_cards[idx]
    /\ \A k \in DOMAIN correct_cards : correct_cards[k] # current_cards[idx]

\* C7 as claimed: once the user has answered yes to "Continue without voice?"
\* in run_round, no card is narrated any more, in this round or a later one.
C7_VoiceStaysOff == voice_dismissed => (pc # "narrate" /\ ~voice_enabled)

\* C8: a narration step that fails and is accepted leads to the question of
\* the same card, with the round's cards and lists untouched; a reader that
\* cannot be built and is accepted leads to the first card; the round's end is
\* reached only with every card graded; and the process ends inside a round
\* only with status 1 and only on a declined narration prompt.
C8_NarrationFailureKeepsRound ==
    [][ /\ (pc = "narrate" /\ pc' # pc) =>
              \/ /\ pc' = "ask"
                 /\ idx' = idx
                 /\ current_cards' = current_cards
                 /\ correct_cards' = correct_cards
                 /\ incorrect_cards' = incorrect_cards
              \/ /\ pc' = "exited"
                 /\ event'.kind = "voice_error"
        /\ (pc = "round_start" /\ pc' # pc) =>
              \/ /\ pc' \in {"narrate", "ask"}
                 /\ idx' = 1
                 /\ current_cards' = current_cards
              \/ /\ pc' = "exited"
                 /\ event'.kind = "reader_error"
        /\ (pc = "ask" /\ pc' # pc) =>
              Len(correct_cards') + Len(incorrect_cards') = idx
        /\ (pc' = "round_end" /\ pc # pc') =>
              Len(correct_cards') + Len(incorrect_cards') = Len(current_cards)
        /\ (event'.kind = "voice_error" /\ event'.ok /\ event' # event) =>
              (pc' = "ask" /\ ~voice_enabled')
        /\ (pc \in {"round_start", "narrate", "ask", "confirm", "round_end"}
              /\ pc' = "exited") =>
              /\ exit_code' = Some(1)
              /\ event'.kind \in {"voice_error", "reader_error"}
              /\ ~event'.ok
      ]_vars

\* C8 witness: in a round of two cards the reader was built, a narration
\* failed and was accepted, and the round has reached its end.
C8_Witness ==
    /\ pc = "round_end"
    /\ round_num = 1
    /\ voice_dismissed
    /\ voice_reader # None
    /\ Len(current_cards) = 2
    /\ Len(correct_cards) + Len(incorrect_cards) = 2

\* C9 as claimed: what is read aloud for a card is its prompt when the
\* narration column is the prompt column, and its answer when the narration
\* column is the answer column.
C9_SpeaksNarrationColumn ==
    (pc = "ask" /\ event.kind \in {"speak", "voice_error"}) =>
        /\ voice_col = Some(cfg.from_col) => event.text = current_cards[idx][1]
        /\ voice_col = Some(cfg.to_col) => event.text = current_cards[idx][2]

\* the cache file of the call that voice_op records
OpPath(op) == audio_path(op.key[1], op.key[2], op.key[3])

IsLookup(op) == op.op \in {"get_audio_path", "speak"}

\* C10: a call of get_audio_path (on its own or through speak) with a valid
\* voice whose cache file exists makes no remote call, returns that file and
\* leaves the cache directory as it is; a remote call is made only when the
\* file is missing; a call that returns leaves its file in the directory, and
\* no file is ever removed, so the next identical call finds it.
C10_CacheHitMakesNoRemoteCall ==
    [][ /\ (voice_op' # voice_op /\ IsLookup(voice_op')
              /\ voice_op'.key[2] \in AVAILABLE_VOICES
              /\ OpPath(voice_op') \in cache_files) =>
              /\ ~voice_op'.remote
              /\ voice_op'.raised = None
              /\ voice_op'.path = Some(OpPath(voice_op'))
              /\ cache_files' = cache_files
              /\ partial_files' = partial_files
        /\ (voice_op' # voice_op /\ IsLookup(voice_op') /\ voice_op'.remote) =>
              OpPath(voice_op') \notin cache_files
        /\ (voice_op' # voice_op /\ IsLookup(voice_op') /\ voice_op'.raised = None) =>
              OpPath(voice_op') \in cache_files'
        /\ cache_files \subseteq cache_files'
      ]_vars

\* C10 witness: a call returned a cached file without a remote call.
C10_Witness ==
    /\ voice_op.op = "get_audio_path"
    /\ ~voice_op.remote
    /\ voice_op.raised = None
    /\ voice_op.path = Some(OpPath(voice_op))
    /\ OpPath(voice_op) \in cache_files

\* both calls returned a cache path
BothReturned ==
    /\ call_result # None
    /\ Get(call_result)[1] # None
    /\ Get(call_result)[2] # None

\* C11 as claimed: two calls that differ in text, voice or language get
\* different cache file names.
C11_AnyDifferenceChangesFingerprint ==
    (pc = "fingerprint" /\ BothReturned /\ call_args[1] # call_args[2]) =>
        Get(call_result)[1] # Get(call_result)[2]

\* what a language stands for in the fingerprint: its narration instruction,
\* whatever its spelling, and nothing when it is absent or unknown
Narration(language) ==
    CASE language \in {Some("french"), Some("French"), Some("FRENCH")} -> "french"
      [] language = Some("English") -> "english"
      [] OTHER -> "plain"

\* C11 amended: two calls get the same cache file name exactly when they
\* have the same text, the same voice and languages that resolve to the same
\* narration instruction; the spelling of a language and the difference
\* between an unknown and an absent language do not reach the fingerprint.
C11_FingerprintOfResolvedInputs ==
    (pc = "fingerprint" /\ BothReturned) =>
        (Get(call_result)[1] = Get(call_result)[2]
            <=> /\ call_args[1][1] = call_args[2][1]
                /\ call_args[1][2] = call_args[2][2]
                /\ Narration(call_args[1][3]) = Narration(call_args[2][3]))

\* C11 witness: two calls that differ only in the language were given the
\* same cache file name.
C11_Witness ==
    /\ pc = "fingerprint"
    /\ BothReturned
    /\ call_args[1][3] # call_args[2][3]
    /\ call_args[1][3] # None /\ call_args[2][3] # None
    /\ Get(call_result)[1] = Get(call_result)[2]

\* C12 as claimed: a call that returns a cached file without a remote call
\* never returns a file that a failed synthesis left partially written.
C12_NoPartialCacheHit ==
    (IsLookup(voice_op) /\ ~voice_op.remote /\ voice_op.path # None) =>
        Get(voice_op.path) \notin partial_files

\* C13: a call of get_audio_path (on its own or through speak) with a voice
\* outside AVAILABLE_VOICES raises ValueError, makes no remote call, returns no
\* path and leaves the cache directory and the playback threads as they are;
\* and it raises the same for every outcome of the remote service and for
\* every content of the cache directory, the call's own cache file included.
C13_InvalidVoiceFailsFirst ==
    [][ (voice_op' # voice_op /\ IsLookup(voice_op')
            /\ voice_op'.key[2] \notin AVAILABLE_VOICES) =>
            /\ voice_op'.raised = Some("ValueError")
            /\ ~voice_op'.remote
            /\ voice_op'.path = None
            /\ cache_files' = cache_files
            /\ partial_files' = partial_files
            /\ active_playback_threads' = active_playback_threads
            /\ \A files \in {{}, cache_files, cache_files \cup {OpPath(voice_op')}},
                  outcome \in RemoteOutcomes :
                  LET got == get_audio_path(files, partial_files,
                                            voice_op'.key[1], voice_op'.key[2],
                                            voice_op'.key[3], outcome)
                  IN  /\ got.raised = Some("ValueError")
                      /\ ~got.remote
                      /\ got.files = files
      ]_vars

\* C13 witness: a call with an unknown voice and a language raised ValueError
\* on a cache directory that holds files.
C13_Witness ==
    /\ voice_op.op = "get_audio_path"
    /\ voice_op.key[2] \notin AVAILABLE_VOICES
    /\ voice_op.key[3] # None
    /\ voice_op.raised = Some("ValueError")
    /\ cache_files # {}

\* C14: play_audio raises FileNotFoundError exactly when its path is no file
\* at the call, and raises nothing else; when it raises, the tracked threads
\* are left as they are, finished ones included; when it does not, the live
\* threads are kept and one live thread for the path is added.
C14_PlayAudioNotFound ==
    [][ \A path \in PlayablePaths : PlayAudio(path) =>
            /\ voice_op'.op = "play_audio"
            /\ (voice_op'.raised = Some("FileNotFoundError")) <=> (path \notin cache_files)
            /\ voice_op'.raised \in {None, Some("FileNotFoundError")}
            /\ cache_files' = cache_files
            /\ IF path \notin cache_files
               THEN active_playback_threads' = active_playback_threads
               ELSE /\ Len(active_playback_threads') =
                         Len(SelectSeq(active_playback_threads, is_alive)) + 1
                    /\ active_playback_threads'[Len(active_playback_threads')] =
                         [path |-> path, alive |-> TRUE]
      ]_vars

\* C14 witness: play_audio raised FileNotFoundError while a finished thread
\* was tracked, and the thread is still tracked.
C14_Witness ==
    /\ voice_op.op = "play_audio"
    /\ voice_op.raised = Some("FileNotFoundError")
    /\ voice_op.key \notin cache_files
    /\ active_playback_threads # <<>>
    /\ ~active_playback_threads[1].alive

\* some tracked playback thread ends in this step
SomePlaybackEnds ==
    \E k \in DOMAIN active_playback_threads \cap DOMAIN active_playback_threads' :
        /\ active_playback_threads[k].alive
        /\ ~active_playback_threads'[k].alive

\* C15: the end of a playback thread, whatever made it end, changes nothing
\* of the command: not its position, its cards, its lists, its exit status
\* or what it printed, and not the cache; a narration that succeeds goes
\* straight to the question of the same card with its thread started and
\* alive and every thread that was alive still alive; answering and
\* confirming neither wait for the threads nor end them; and the question can
\* be answered whatever the threads are doing.
C15_PlaybackNeverBlocks ==
    /\ [](pc = "ask" => ENABLED (\E user_answer \in InputPool : Answer(user_answer)))
    /\ [][  /\ SomePlaybackEnds =>
                  /\ session_vars' = session_vars
                  /\ cache_files' = cache_files
                  /\ partial_files' = partial_files
            /\ (pc = "narrate" /\ event'.kind = "speak") =>
                  /\ pc' = "ask"
                  /\ idx' = idx
                  /\ active_playback_threads' =
                         Append(SelectSeq(active_playback_threads, is_alive),
                                [path |-> audio_path(event'.text,
                                                     voice_or_default(cfg.voice_type),
                                                     cfg.language),
                                 alive |-> TRUE])
            /\ (pc \in {"ask", "confirm"} /\ session_vars' # session_vars) =>
                  active_playback_threads' = active_playback_threads
          ]_vars

\* C15 witness: the question of the second card is up while the playback of
\* the first card and that of the second are both still running.
C15_Witness ==
    /\ pc = "ask"
    /\ idx = 2
    /\ Len(active_playback_threads) = 2
    /\ active_playback_threads[1].alive
    /\ active_playback_threads[2].alive
    /\ active_playback_threads[1].path # active_playback_threads[2].path

\* the positions of the rows that have both columns
Qualifying(rows, from_col, to_col) ==
    {k \in DOMAIN rows : Len(rows[k]) > from_col /\ Len(rows[k]) > to_col}

\* C16: load_cards returns as many cards as there are rows with more fields
\* than the larger column index, and the card of the n-th such row is the
\* n-th card and is that row's two fields as they are: shorter rows give no
\* card, the order is the file's, equal rows give equal cards, and no field
\* is trimmed or dropped for being empty.
C16_OneCardPerQualifyingRow ==
    (pc = "load_cards" /\ call_result # None) =>
        LET rows == call_args[1]
            from_col == call_args[2]
            to_col == call_args[3]
            loaded == Get(call_result)
            kept == Qualifying(rows, from_col, to_col)
        IN  /\ Len(loaded) = Cardinality(kept)
            /\ \A k \in kept :
                  loaded[Cardinality({j \in kept : j <= k})] =
                      <<rows[k][from_col + 1], rows[k][to_col + 1]>>

\* C16 witness: of two rows the first was too short and the second was
\* loaded with the whitespace around its question kept.
C16_Witness ==
    /\ pc = "load_cards"
    /\ call_result # None
    /\ Len(call_args[1]) = 2
    /\ Len(call_args[1][1]) <= max(call_args[2], call_args[3])
    /\ Len(Get(call_result)) = 1
    /\ Get(call_result)[1][1] # strip(Get(call_result)[1][1])

\* C17: a file that was read and has no row with both columns, an empty file
\* included, ends the command with status 1 and the no-cards message, no
\* card loaded and no round begun; any other file that was read yields a
\* list that is not empty; so load_cards never returns an empty list, and no
\* round, the first or a later one, runs on zero cards.
C17_EmptyLoadFails ==
    [][ /\ \A rows \in Files : LoadCards(rows) =>
              IF Qualifying(rows, cfg.from_col, cfg.to_col) = {}
              THEN /\ pc' = "exited"
                   /\ exit_code' = Some(1)
                   /\ event'.kind = "no_cards"
                   /\ cards' = <<>>
                   /\ round_num' = 0
              ELSE /\ pc' = "loaded"
                   /\ cards' # <<>>
                   /\ exit_code' = None
        /\ pc' = "loaded" => cards' # <<>>
        /\ pc' \in {"round_start", "narrate", "ask", "confirm", "round_end"} =>
              current_cards' # <<>>
        /\ event'.kind = "no_cards" => (pc' = "exited" /\ exit_code' = Some(1))
      ]_vars

\* C17 witness: the command ended with status 1 on a file without a usable
\* row, before any round.
C17_Witness ==
    /\ pc = "exited"
    /\ exit_code = Some(1)
    /\ event.kind = "no_cards"
    /\ cards = <<>>
    /\ round_num = 0

ColumnsRejected ==
    cfg.from_col < 0 \/ cfg.to_col < 0 \/ cfg.from_col = cfg.to_col

\* C19 as claimed: a command with a negative column index or two equal ones
\* ends with status 1 and the column message.
C19_BadColumnsExitOne ==
    (ColumnsRejected /\ pc = "exited") =>
        (exit_code = Some(1) /\ event.kind = "config_error")

\* C19 amended: once the file argument has been accepted, a negative column
\* index or two equal ones end the command with status 1 and the column
\* message, and other columns lead on to the voice checks; with such columns
\* the command never gets past the column checks: it ends there or, with
\* status 2, on a file path that does not exist, having loaded nothing, asked
\* nothing about narration and begun no round; so the voice checks, the
\* loading and every round run with two different non-negative columns.
C19_BadColumnsStopBeforeLoading ==
    [][ /\ (pc = "validate" /\ pc' # pc) =>
              IF ColumnsRejected
              THEN /\ pc' = "exited"
                   /\ exit_code' = Some(1)
                   /\ event'.kind = "config_error"
              ELSE /\ pc' = "check_voice"
                   /\ exit_code' = None
        /\ ColumnsRejected =>
              /\ pc' \in {"parse", "validate", "exited"}
              /\ event'.kind \in {"none", "usage_error", "config_error"}
              /\ exit_code' \in {None, Some(1), Some(2)}
              /\ (exit_code' = Some(2)) <=> (event'.kind = "usage_error")
              /\ (exit_code' = Some(1)) <=> (event'.kind = "config_error")
              /\ cards' = <<>>
              /\ round_num' = 0
              /\ voice_col' = cfg.voice_col
        /\ pc' \notin {"parse", "validate", "exited"} =>
              (cfg.from_col >= 0 /\ cfg.to_col >= 0 /\ cfg.from_col # cfg.to_col)
        /\ cards' # <<>> =>
              (cfg.from_col >= 0 /\ cfg.to_col >= 0 /\ cfg.from_col # cfg.to_col)
      ]_vars

\* C19 witness: a command with equal columns and a voice option that the
\* voice checks would ask about ended with status 1 on the column message.
C19_Witness ==
    /\ pc = "exited"
    /\ exit_code = Some(1)
    /\ event.kind = "config_error"
    /\ cfg.from_col = cfg.to_col
    /\ voice_problem(cfg, cfg.voice_col) # "none"
    /\ voice_col = cfg.voice_col

\* narration is asked for with a voice that is not in AVAILABLE_VOICES or a
\* language that is not in LANGUAGE_INSTRUCTIONS
UnknownVoiceOrLanguage ==
    /\ cfg.voice_col # None
    /\ \/ cfg.voice_type # None /\ Get(cfg.voice_type) \notin AVAILABLE_VOICES
       \/ /\ cfg.language # None
          /\ lang_lower(Get(cfg.language)) \notin DOMAIN LANGUAGE_INSTRUCTIONS

\* C20 as claimed: with bad columns, an unknown voice or an unknown language
\* no round runs and the command does not end with status 0.
C20_ConfigErrorsFatal ==
    (ColumnsRejected \/ UnknownVoiceOrLanguage) =>
        (round_num = 0 /\ exit_code # Some(0))

\* C20 amended: bad columns are fatal: no round runs and the command ends
\* with a status that is not 0. An unknown voice or language, asked for
\* together with narration, is not: the voice checks print their message and
\* ask "Continue without voice?"; declined, the command ends with status 1
\* before any round; accepted, the narration column is cleared and the
\* command goes on to load the file, and its rounds run without narration.
C20_OnlyColumnErrorsFatal ==
    [][ /\ ColumnsRejected =>
              /\ round_num' = 0
              /\ exit_code' # Some(0)
              /\ pc' \in {"parse", "validate", "exited"}
        /\ (UnknownVoiceOrLanguage /\ pc = "check_voice" /\ pc' # pc) =>
              /\ event'.kind = "voice_config_error"
              /\ IF event'.ok
                 THEN /\ pc' = "load"
                      /\ voice_col' = None
                      /\ exit_code' = None
                 ELSE /\ pc' = "exited"
                      /\ exit_code' = Some(1)
                      /\ round_num' = 0
        /\ UnknownVoiceOrLanguage =>
              /\ ~voice_enabled'
              /\ pc' # "narrate"
              /\ round_num' >= 1 => voice_col' = None
      ]_vars

\* C20 witness: a command with an unknown voice or language ran a round and
\* ended with status 0.
C20_Witness ==
    /\ UnknownVoiceOrLanguage
    /\ ~ColumnsRejected
    /\ pc = "exited"
    /\ exit_code = Some(0)
    /\ round_num >= 1
    /\ all_results # <<>>

\* narration is asked for and one of the five voice checks of flash fails
NarrationMisconfigured ==
    /\ cfg.voice_col # None
    /\ \/ ~cfg.voice_available
       \/ Get(cfg.voice_col) < 0
       \/ UnknownVoiceOrLanguage
       \/ ~cfg.api_key

\* the command is past its voice checks and has not ended before them
PastVoiceChecks ==
    pc \in {"load", "loaded", "round_start", "narrate", "ask", "confirm",
            "round_end", "summary"}

\* C21: when narration is asked for and a voice check fails (no reader
\* available, negative column, unknown voice, unknown language, no API key),
\* the voice checks print one message and ask once; on a yes the narration
\* column is cleared and the command goes on to load the file, and from then
\* on no round has narration, no reader is built, no thread is started and
\* the cache is not touched; on a no the command ends with status 1 with no
\* card loaded; the question is asked nowhere else and not again, and with
\* no failing check it is not asked and the narration column is kept.
C21_VoiceCheckFailureAsksOnce ==
    [][ /\ (pc = "check_voice" /\ pc' # pc) =>
              IF NarrationMisconfigured
              THEN /\ event'.kind = "voice_config_error"
                   /\ IF event'.ok
                      THEN /\ pc' = "load"
                           /\ voice_col' = None
                           /\ exit_code' = None
                      ELSE /\ pc' = "exited"
                           /\ exit_code' = Some(1)
                           /\ cards' = <<>>
                           /\ round_num' = 0
              ELSE /\ pc' = "load"
                   /\ voice_col' = cfg.voice_col
                   /\ event' = event
        /\ (event'.kind = "voice_config_error" /\ event' # event) =>
              (pc = "check_voice" /\ event.kind = "none")
        /\ (NarrationMisconfigured /\ PastVoiceChecks') =>
              /\ voice_col' = None
              /\ ~voice_enabled'
              /\ voice_reader' = None
              /\ pc' # "narrate"
              /\ active_playback_threads' = <<>>
              /\ cache_files' = {}
              /\ ~voice_dismissed'
      ]_vars

\* C21 witness: narration of column 0 was asked for without an API key, the
\* user chose to continue, and a round of two cards has been graded without
\* a reader.
C21_Witness ==
    /\ cfg.voice_col = Some(0)
    /\ ~cfg.api_key
    /\ pc = "round_end"
    /\ Len(current_cards) = 2
    /\ voice_col = None
    /\ voice_reader = None

\* C22: the command ends normally with the final summary exactly when more
\* than one round ran, and then the summary has one line per round, in the
\* order of the rounds, each with the record of its round; the
\* congratulation goes with it exactly when more than one round ran and the
\* last round left no incorrect card; after a single round neither is
\* printed, whatever the answers were.
C22_FinalSummaryAfterSeveralRounds ==
    [][ (pc = "summary" /\ pc' = "exited") =>
            /\ exit_code' = Some(0)
            /\ (event'.kind = "final_summary") <=> (round_num > 1)
            /\ (event'.kind = "final_summary" /\ event'.ok)
                  <=> (round_num > 1 /\ incorrect_cards = <<>>)
            /\ round_num <= 1 =>
                  (event'.kind = "finished" /\ ~event'.ok /\ event'.text = <<>>)
            /\ event'.kind = "final_summary" =>
                  /\ Len(event'.text) = round_num
                  /\ \A r \in 1..round_num :
                        /\ event'.text[r][1] = r
                        /\ event'.text[r][2] = all_results[r][1]
                        /\ event'.text[r][3] = all_results[r][2]
      ]_vars

\* C22 witness: a recursive session of one round in which both cards were
\* answered correctly ended without a final summary.
C22_Witness ==
    /\ cfg.recursive
    /\ pc = "exited"
    /\ exit_code = Some(0)
    /\ round_num = 1
    /\ Len(correct_cards) = 2
    /\ incorrect_cards = <<>>
    /\ event.kind = "finished"

\* C23: the step after a round records, under the round's number, the number
\* of cards in the round's correct list and the number of cards of the
\* round; the records then are those of rounds 1 to the round just ended,
\* the earlier ones as they were; no other step touches the records; a
\* round that follows has the next number; and of two consecutive records
\* the total of the later is the total of the earlier less its correct.
C23_RoundRecords ==
    [][ /\ (pc = "round_end" /\ pc' # pc) =>
              /\ DOMAIN all_results = 1..(round_num - 1)
              /\ DOMAIN all_results' = 1..round_num
              /\ all_results'[round_num] = <<Len(correct_cards), Len(current_cards)>>
              /\ \A r \in DOMAIN all_results : all_results'[r] = all_results[r]
              /\ round_num' \in {round_num, round_num + 1}
              /\ pc' = "round_start" <=> round_num' = round_num + 1
        /\ (pc # "round_end" /\ InSession) => all_results' = all_results
        /\ (pc # "round_end" /\ InSession) => round_num' = round_num
        /\ \A r \in DOMAIN all_results' :
              (r + 1) \in DOMAIN all_results' =>
                  all_results'[r + 1][2] = all_results'[r][2] - all_results'[r][1]
      ]_vars

\* C23 witness: two rounds are on record, the first with two cards of which
\* one was answered correctly, the second with the other card.
C23_Witness ==
    /\ DOMAIN all_results = {1, 2}
    /\ all_results[1] = <<1, 2>>
    /\ all_results[2][2] = 1

\* tenths is correct out of total as a percentage, to the nearest tenth
NearestTenth(tenths, correct, total) ==
    LET off == tenths * total - 1000 * correct
    IN  /\ total >= 1
        /\ 2 * off <= total
        /\ 2 * off >= 0 - total

\* C24: every record of a round has a total of at least 1; a round summary
\* is printed only for a round with at least one card, with its correct
\* count, its total and the percentage of the two; run_round on zero cards
\* (which only a caller other than flash hands it) prints nothing after the
\* round's header and returns two empty lists, and on any cards returns its
\* two lists; and every line of the final summary has a total of at least 1
\* and the percentage of its round.
C24_NoDivisionByZero ==
    [][ /\ \A r \in DOMAIN all_results' : all_results'[r][2] >= 1
        /\ (event'.kind = "round_summary" /\ event' # event) =>
              /\ pc = "round_end"
              /\ Len(current_cards) >= 1
              /\ event'.text[1] = Len(correct_cards)
              /\ event'.text[2] = Len(current_cards)
              /\ NearestTenth(event'.text[3], Len(correct_cards), Len(current_cards))
        /\ (pc = "round_end" /\ pc' # pc /\ current_cards = <<>>) =>
              /\ DirectCall
              /\ pc' = "returned"
              /\ event' = event
              /\ event.kind = "round_header"
              /\ call_result' = Some(<< <<>>, <<>> >>)
        /\ (pc = "round_end" /\ pc' = "returned") =>
              call_result' = Some(<<correct_cards, incorrect_cards>>)
        /\ (event'.kind = "final_summary" /\ event' # event) =>
              \A r \in DOMAIN event'.text :
                  NearestTenth(event'.text[r][4], event'.text[r][2], event'.text[r][3])
      ]_vars

\* C24 witness: run_round on zero cards, with narration asked for, has
\* returned two empty lists, and the last thing printed is the round's header.
C24_Witness ==
    /\ pc = "returned"
    /\ current_cards = <<>>
    /\ voice_col # None
    /\ call_result = Some(<< <<>>, <<>> >>)
    /\ event.kind = "round_header"

\* the voice that narration is to use
ConfiguredVoice == IF cfg.voice_type = None THEN "onyx" ELSE cfg.voice_type[1]

\* C25: a round that wants narration and whose reader is built starts with
\* the reader and with narration on; while narration is on, the question of
\* a card is reached only from the narration step of that card, by a speak
\* call that starts a playback of the audio for the spoken text, the
\* configured voice (the default one if none is given) and the configured
\* language; the narration step of a card is entered only from the start of
\* the round, for card 1, or from the grading or the accepted confirmation
\* of the card before; speak is called nowhere else; and a confirmation
\* prompt neither calls speak nor touches the cache or the reader.
C25_NarrationOncePerCard ==
    [][ /\ (pc = "round_start" /\ pc' \in {"narrate", "ask", "round_end"}
              /\ event'.ok) =>
              /\ voice_enabled' = (voice_col # None /\ cfg.voice_available)
              /\ (voice_reader' # None) <=> voice_enabled'
        /\ (pc' = "ask" /\ pc # "ask" /\ voice_enabled' /\ voice_reader' # None) =>
              /\ pc = "narrate"
              /\ event'.kind = "speak"
              /\ idx' = idx
              /\ active_playback_threads'[Len(active_playback_threads')].path =
                     audio_path(event'.text, ConfiguredVoice, cfg.language)
              /\ event'.text \in {current_cards[idx][1], current_cards[idx][2]}
        /\ (pc' = "narrate" /\ pc # "narrate") =>
              /\ voice_enabled' /\ voice_reader' # None
              /\ \/ pc = "round_start" /\ idx' = 1
                 \/ pc = "ask" /\ idx' = idx + 1 /\ event'.kind = "graded"
                 \/ pc = "confirm" /\ idx' = idx + 1 /\ event'.kind = "confirmed"
        /\ (pc = "narrate" /\ session_vars' # session_vars) =>
              (pc' \in {"ask", "exited"} /\ event'.kind \in {"speak", "voice_error"})
        /\ (event'.kind = "speak" /\ event' # event) => pc = "narrate"
        /\ (pc # "narrate") => cache_files' = cache_files
        /\ (pc \notin {"narrate", "round_start"}) =>
              Len(active_playback_threads') = Len(active_playback_threads)
        /\ (voice_reader' # voice_reader) => pc = "round_start"
        /\ (pc = "confirm" /\ session_vars' # session_vars) =>
              /\ event'.kind \in ConfirmEvents
              /\ event'.kind = "confirm_retry" => pc' = "confirm"
      ]_vars

\* C25 witness: a round of two cards in confirm mode, with narration on, no
\* voice given and no narration failure, has ended with a card confirmed and
\* the audio of both cards in the cache.
C25_Witness ==
    /\ pc = "round_end"
    /\ cfg.confirm
    /\ cfg.voice_type = None
    /\ voice_enabled
    /\ voice_reader # None
    /\ ~voice_dismissed
    /\ Len(current_cards) = 2
    /\ incorrect_cards # <<>>
    /\ Cardinality(cache_files) = 2
    /\ partial_files = {}

\* after is before without its finished threads, in the order of before,
\* followed by one live thread
PrunedAndOneStarted(before, after) ==
    LET live == {k \in DOMAIN before : before[k].alive}
    IN  /\ Len(after) = Cardinality(live) + 1
        /\ after[Len(after)].alive
        /\ \A k \in live : after[Cardinality({j \in live : j <= k})] = before[k]

\* after tracks the threads of before, of which some may have ended
SameThreads(before, after) ==
    /\ Len(after) = Len(before)
    /\ \A k \in DOMAIN before :
          /\ after[k].path = before[k].path
          /\ after[k].alive => before[k].alive

\* lists of up to three tracked threads, running and finished
ThreadLists ==
    SeqsUpTo({ [path |-> <<"x">>, alive |-> TRUE],
               [path |-> <<"y">>, alive |-> TRUE],
               [path |-> <<"x">>, alive |-> FALSE] }, 3)

\* a speak call returned in this step
SpeakReturned == event'.kind = "speak" /\ event' # event

\* C26: a speak call that returns, and so a play_audio call that succeeds,
\* leaves tracked the threads that were alive, in their order, followed by
\* the thread it started, and does so for every list of tracked threads,
\* whose content does not change what the call does to the cache; no other
\* step of a round removes a tracked thread, finished or not; and a step
\* that only changes the tracked threads changes nothing of the command and
\* nothing of the cache.
C26_TrackedThreads ==
    [][ /\ SpeakReturned =>
              /\ PrunedAndOneStarted(active_playback_threads, active_playback_threads')
              /\ \A threads \in ThreadLists :
                    LET path == active_playback_threads'[Len(active_playback_threads')].path
                        played == play_audio(threads, cache_files', path)
                        spoken == speak(threads, cache_files, partial_files,
                                        event'.text, ConfiguredVoice, cfg.language, "ok")
                    IN  /\ played # None
                        /\ PrunedAndOneStarted(threads, played[1])
                        /\ played[1][Len(played[1])].path = path
                        /\ ~spoken.raised
                        /\ spoken.files = cache_files'
        /\ (~SpeakReturned /\ pc # "round_start") =>
              SameThreads(active_playback_threads, active_playback_threads')
        /\ (active_playback_threads' # active_playback_threads
              /\ pc \notin {"round_start", "narrate"}) =>
              /\ session_vars' = session_vars
              /\ cache_files' = cache_files
              /\ partial_files' = partial_files
      ]_vars

\* C26 witness: the second card was narrated after the playback of the
\* first had ended: only the second playback is tracked.
C26_Witness ==
    /\ pc = "ask"
    /\ idx = 2
    /\ event.kind = "speak"
    /\ Len(active_playback_threads) = 1
    /\ Cardinality(cache_files) = 2

\* two spellings of one language name
SameNameInAnyCase(l, m) ==
    \/ l = m
    \/ {l, m} \subseteq {Some("french"), Some("French"), Some("FRENCH")}

\* a language that is absent or has no narration instruction
Unresolved(l) == l \in {None, Some("klingon")}

\* C27: two calls with the same text and voice get the same cache file name
\* when their languages are the same, or are one name in different letter
\* case, or are both absent or unrecognized; in particular the same call
\* made twice gets the same name.
C27_FingerprintOfResolvedInstruction ==
    (pc = "fingerprint" /\ BothReturned
        /\ call_args[1][1] = call_args[2][1]
        /\ call_args[1][2] = call_args[2][2]
        /\ \/ SameNameInAnyCase(call_args[1][3], call_args[2][3])
           \/ Unresolved(call_args[1][3]) /\ Unresolved(call_args[2][3])) =>
        Get(call_result)[1] = Get(call_result)[2]

\* C27 witness: a call with an unrecognized language and a call with no
\* language were given the same cache file name.
C27_Witness ==
    /\ pc = "fingerprint"
    /\ BothReturned
    /\ call_args[1][3] = Some("klingon")
    /\ call_args[2][3] = None
    /\ Get(call_result)[1] = Get(call_result)[2]

\* C28: no step removes a file of the cache directory or changes what a file
\* holds; a step adds at most one file, and only a get_audio_path call (on
\* its own or through speak) with a valid voice adds one: the file of its
\* own fingerprint, which was missing when the call looked for it.
\* play_audio, a call with an invalid voice and the end of a playback leave
\* the directory as it was.
C28_CacheOnlyGrows ==
    [][ /\ cache_files \subseteq cache_files'
        /\ partial_files \subseteq partial_files'
        /\ (cache_files \ partial_files) \subseteq (cache_files' \ partial_files')
        /\ Cardinality(cache_files' \ cache_files) <= 1
        /\ cache_files' # cache_files =>
              /\ IsLookup(voice_op')
              /\ voice_op'.key[2] \in AVAILABLE_VOICES
              /\ voice_op'.remote
              /\ cache_files' \ cache_files = {OpPath(voice_op')}
        /\ (voice_op' # voice_op /\ voice_op'.op = "play_audio") =>
              UNCHANGED <<cache_files, partial_files>>
        /\ (voice_op' # voice_op /\ IsLookup(voice_op')
              /\ voice_op'.key[2] \notin AVAILABLE_VOICES) =>
              UNCHANGED <<cache_files, partial_files>>
      ]_vars

\* C28 witness: a get_audio_path call fetched its file into a directory that
\* held the partial file of an earlier failed call and a complete file.
C28_Witness ==
    /\ pc = "voice"
    /\ voice_op.op = "get_audio_path"
    /\ voice_op.remote
    /\ voice_op.raised = None
    /\ OpPath(voice_op) \in cache_files \ partial_files
    /\ partial_files # {}
    /\ Cardinality(cache_files \ partial_files) >= 2

\* the cards of s are cards of t, as often at most
CardsAmong(s, t) == \A k \in DOMAIN s : Count(s, s[k]) <= Count(t, s[k])

\* C29: when a recursive session goes from one round to the next, every card
\* of the round is in the next round as often as it was in the round less
\* the times it was answered correctly, which is as often as it was answered
\* incorrectly; so the next round is no longer than the round, and shorter
\* exactly when the round had a correct answer. In every round the cards of
\* the round and the cards answered correctly in the rounds before add up to
\* the loaded cards, every card of the round is a loaded card, and the loaded
\* cards do not change once the session has begun.
C29_MasteredCardsLeave ==
    [][ /\ (pc = "round_end" /\ pc' = "round_start") =>
              /\ cfg.recursive
              /\ round_num' = round_num + 1
              /\ \A k \in DOMAIN current_cards :
                    /\ Count(current_cards', current_cards[k])
                          + Count(correct_cards, current_cards[k])
                            = Count(current_cards, current_cards[k])
                    /\ Count(current_cards', current_cards[k])
                            = Count(incorrect_cards, current_cards[k])
              /\ CardsAmong(current_cards', current_cards)
              /\ Len(current_cards') <= Len(current_cards)
              /\ Len(current_cards') < Len(current_cards) <=> correct_cards # <<>>
        /\ (pc' = "round_start" \/ InRound') =>
              /\ CardsAmong(current_cards', cards')
              /\ Len(current_cards') + SumCorrect(all_results', round_num' - 1)
                    = Len(cards')
        /\ InSession => cards' = cards
      ]_vars

\* C29 witness: the second round of a recursive session runs over the one
\* card that was answered incorrectly in a first round of two cards, the
\* other having been answered correctly.
C29_Witness ==
    /\ cfg.recursive
    /\ pc = "ask"
    /\ round_num = 2
    /\ Len(cards) = 2
    /\ Len(current_cards) = 1
    /\ all_results[1] = <<1, 2>>

\* C30: a final summary is always printed with the congratulation: it is
\* printed in recursive mode only, after a last round that left no incorrect
\* card and whose record counts every card of the round as correct. In
\* recursive mode the loop is left for the summary only with an empty
\* incorrect list, and while the last round run has left an incorrect card
\* the session is still in its loop or has exited with an error.
C30_FinalSummaryCongratulates ==
    [][ /\ event'.kind = "final_summary" =>
              /\ event'.ok
              /\ cfg'.recursive
              /\ pc' = "exited"
              /\ exit_code' = Some(0)
              /\ incorrect_cards' = <<>>
              /\ all_results'[round_num'][1] = all_results'[round_num'][2]
        /\ (cfg.recursive /\ pc # "summary" /\ pc' = "summary") =>
              /\ pc = "round_end"
              /\ incorrect_cards = <<>>
              /\ incorrect_cards' = <<>>
        /\ (cfg'.recursive /\ InSession' /\ incorrect_cards' # <<>>) =>
              /\ pc' # "summary"
              /\ exit_code' # Some(0)
              /\ event'.kind # "final_summary"
      ]_vars

\* C30 witness: a recursive session printed its final summary and the
\* congratulation after a second round that answered the card the first
\* round had left.
C30_Witness ==
    /\ cfg.recursive
    /\ pc = "exited"
    /\ event.kind = "final_summary"
    /\ event.ok
    /\ round_num = 2
    /\ all_results[1][1] < all_results[1][2]
    /\ all_results[2][1] = all_results[2][2]

====
